---------------------------- MODULE Spec2Model ----------------------------
(***************************************************************************)
(* A model of njord's MySQL SELECT query builder and its execution         *)
(* (njord/src/mysql/select.rs), of the MSSQL INSERT operations             *)
(* (njord/src/mssql/insert.rs) and of the key types (njord/src/keys.rs).   *)
(*                                                                         *)
(* SQL text is modelled character by character: a text is a sequence of    *)
(* one-character strings, so concatenation, str::replace, padding and      *)
(* exact spacing are computed as the code computes them.                   *)
(*                                                                         *)
(* Option<T> is modelled as a sequence of length at most one:              *)
(* None is <<>> and Some(x) is <<x>>.                                      *)
(***************************************************************************)
EXTENDS Integers, Sequences, FiniteSets

VARIABLES
    q,        \* the SelectQueryBuilder the fluent chain has produced so far
    sql,      \* the String build_query returns for q
    last,     \* name of the last builder method called ("new" initially)
    reg,      \* history: the set operations in the order they were registered
    calls,    \* number of fluent calls made on q
    rows,     \* the table_rows argument of the last insert() call
    statements, \* the Vec<String> insert() collected from generate_statement
    sent,     \* Option: the statement insert() handed to the backend
    answered, \* the backend's answers (Ok or not) to the calls of the last insert()
    result,   \* what the last insert() or into() returned
    into_args, \* Option: the arguments of the last into() call
    conn,     \* Option: what the backend did during the last build()
    results,  \* the Vec<T> raw_execute has filled
    outcome,  \* how the last build() ended: "Ok", "Err", "panic" ("none" initially)
    cell,     \* Option: a driver value and the text the match on it produced
    key,      \* Option: the key value under study
    shown,    \* Option: the String its Display produced
    parsed,   \* Option: what from_str returned for that text
    got,      \* Option: what the last get() on the key returned
    life      \* history of the key: how it was made, the value last given to
              \* set() on it, and the last operation it took part in

builderVars == <<q, sql, last, reg, calls>>
insertVars == <<rows, statements, sent, answered, result, into_args>>
executeVars == <<conn, results, outcome, cell>>
keyVars == <<key, shown, parsed, got, life>>

vars == <<builderVars, insertVars, executeVars, keyVars>>

---------------------------------------------------------------------------
(* Bounds of the model *)

MaxCalls == 3
MaxRows == 2
MaxBackendRows == 2
MaxKey == 25     \* T::MAX of the keys' numeric type T
MaxDays == 34    \* days of the longest TIME value a MySQL server yields

---------------------------------------------------------------------------
(* Texts *)

kwSelect == <<"S", "E", "L", "E", "C", "T", " ">>
kwDistinct == <<"D", "I", "S", "T", "I", "N", "C", "T", " ">>
kwFrom == <<" ", "F", "R", "O", "M", " ">>
kwWhere == <<"W", "H", "E", "R", "E">>
kwGroupBy == <<"G", "R", "O", "U", "P", " ", "B", "Y">>
kwHaving == <<"H", "A", "V", "I", "N", "G">>
kwOrderBy == <<"O", "R", "D", "E", "R", " ", "B", "Y">>
kwLimit == <<"L", "I", "M", "I", "T">>
kwOffset == <<"O", "F", "F", "S", "E", "T">>
kwExcept == <<" ", "E", "X", "C", "E", "P", "T", " ">>
kwUnion == <<" ", "U", "N", "I", "O", "N", " ">>
kwOn == <<" ", "O", "N", " ">>
kwInnerJoin == <<"I", "N", "N", "E", "R", " ", "J", "O", "I", "N">>
kwLeftJoin == <<"L", "E", "F", "T", " ", "J", "O", "I", "N">>
kwRightJoin == <<"R", "I", "G", "H", "T", " ", "J", "O", "I", "N">>
kwFullOuterJoin == <<"F", "U", "L", "L", " ", "O", "U", "T", "E", "R", " ", "J", "O", "I", "N">>
kwAnd == <<" ", "A", "N", "D", " ">>
kwAsc == <<"A", "S", "C">>
sp == <<" ">>
commaSp == <<",", " ">>
quote == <<"'">>
empty == <<>>

tUsers == <<"u", "s", "e", "r", "s">>
tProducts == <<"p", "r", "o", "d", "u", "c", "t", "s">>
cId == <<"i", "d">>
cUsername == <<"u", "s", "e", "r", "n", "a", "m", "e">>
cEmail == <<"e", "m", "a", "i", "l">>
vMjovanc == <<"m", "j", "o", "v", "a", "n", "c">>
vOther == <<"o", "t", "h", "e", "r">>

(* Option<T> *)
None == <<>>
Some(x) == <<x>>
is_some(o) == o # <<>>
unwrap(o) == o[1]

(* [String]::join(sep) *)
RECURSIVE join(_, _)
join(parts, sep) ==
    IF parts = <<>> THEN <<>>
    ELSE IF Len(parts) = 1 THEN parts[1]
    ELSE parts[1] \o sep \o join(Tail(parts), sep)

(* str::replace(pat, to): every non-overlapping match, leftmost first *)
RECURSIVE replace(_, _, _)
replace(t, pat, to) ==
    IF Len(t) < Len(pat) THEN t
    ELSE IF SubSeq(t, 1, Len(pat)) = pat
         THEN to \o replace(SubSeq(t, Len(pat) + 1, Len(t)), pat, to)
         ELSE <<t[1]>> \o replace(Tail(t), pat, to)

(* usize::to_string: decimal digits, no padding *)
digit(d) == <<"0", "1", "2", "3", "4", "5", "6", "7", "8", "9">>[d + 1]
RECURSIVE to_string(_)
to_string(n) ==
    IF n < 10 THEN <<digit(n)>>
    ELSE to_string(n \div 10) \o <<digit(n % 10)>>

---------------------------------------------------------------------------
(* Conditions (Condition::build) *)

Eq(col, val) == [op |-> "Eq", col |-> col, val |-> val]
Gt(col, val) == [op |-> "Gt", col |-> col, val |-> val]
And(l, r) == [op |-> "And", left |-> l, right |-> r]

RECURSIVE condition_build(_)
condition_build(c) ==
    CASE c.op = "Eq" -> c.col \o <<" ", "=", " ">> \o quote \o c.val \o quote
      [] c.op = "Gt" -> c.col \o <<" ", ">", " ">> \o quote \o c.val \o quote
      [] c.op = "And" ->
            <<"(">> \o condition_build(c.left) \o kwAnd
                \o condition_build(c.right) \o <<")">>

---------------------------------------------------------------------------
(* Clause renderers (mysql::util) *)

generate_where_condition_str(condition) ==
    IF is_some(condition)
    THEN kwWhere \o sp \o condition_build(unwrap(condition))
    ELSE empty

generate_group_by_str(columns) ==
    IF is_some(columns) /\ unwrap(columns) # <<>>
    THEN kwGroupBy \o sp \o join(unwrap(columns), commaSp)
    ELSE empty

(* one (columns, direction) entry of the ORDER BY map *)
order_entry_str(e) == join(e.columns, commaSp) \o sp \o e.order

generate_order_by_str(order_by) ==
    IF is_some(order_by) /\ unwrap(order_by) # <<>>
    THEN kwOrderBy \o sp
            \o join([i \in 1..Len(unwrap(order_by)) |->
                        order_entry_str(unwrap(order_by)[i])], commaSp)
    ELSE empty

generate_limit_str(limit) ==
    IF is_some(limit) THEN kwLimit \o sp \o to_string(unwrap(limit)) ELSE empty

generate_offset_str(offset) ==
    IF is_some(offset) THEN kwOffset \o sp \o to_string(unwrap(offset)) ELSE empty

generate_having_str(group_by, having_condition) ==
    IF group_by /\ is_some(having_condition)
    THEN kwHaving \o sp \o condition_build(unwrap(having_condition))
    ELSE empty

---------------------------------------------------------------------------
(* SelectQueryBuilder *)

new(columns) ==
    [ table |-> None,
      columns |-> columns,
      where_condition |-> None,
      distinct |-> FALSE,
      group_by |-> None,
      order_by |-> None,
      limit |-> None,
      offset |-> None,
      having_condition |-> None,
      except_clauses |-> None,
      union_clauses |-> None,
      joins |-> None ]

select(self, columns) == [self EXCEPT !.columns = columns]
distinct(self) == [self EXCEPT !.distinct = TRUE]
from(self, table) == [self EXCEPT !.table = Some(table)]
where_clause(self, condition) == [self EXCEPT !.where_condition = Some(condition)]
group_by(self, columns) == [self EXCEPT !.group_by = Some(columns)]
order_by(self, col_and_order) == [self EXCEPT !.order_by = Some(col_and_order)]
limit(self, count) == [self EXCEPT !.limit = Some(count)]
(* faulty variant: setting OFFSET forgets the LIMIT *)
offset_resets_limit(self, n) == [self EXCEPT !.offset = Some(n), !.limit = None]

offset(self, n) == [self EXCEPT !.offset = Some(n)]
having(self, condition) == [self EXCEPT !.having_condition = Some(condition)]

(* faulty variant: the new sub-builder is put in front of the list *)
except_prepend(self, other_query) ==
    IF is_some(self.except_clauses)
    THEN [self EXCEPT !.except_clauses = Some(<<other_query>> \o unwrap(@))]
    ELSE [self EXCEPT !.except_clauses = Some(<<other_query>>)]

except(self, other_query) ==
    IF is_some(self.except_clauses)
    THEN [self EXCEPT !.except_clauses = Some(Append(unwrap(@), other_query))]
    ELSE [self EXCEPT !.except_clauses = Some(<<other_query>>)]

union(self, other_query) ==
    IF is_some(self.union_clauses)
    THEN [self EXCEPT !.union_clauses = Some(Append(unwrap(@), other_query))]
    ELSE [self EXCEPT !.union_clauses = Some(<<other_query>>)]

Join_new(join_type, table, on_condition) ==
    [join_type |-> join_type, table |-> table, on_condition |-> on_condition]

join_(self, join_type, table, on_condition) ==
    IF is_some(self.joins)
    THEN [self EXCEPT !.joins =
            Some(Append(unwrap(@), Join_new(join_type, table, on_condition)))]
    ELSE [self EXCEPT !.joins = Some(<<Join_new(join_type, table, on_condition)>>)]

(* faulty variant: rendering consumes the joins *)
after_build_query_joins_taken(self) == [self EXCEPT !.joins = None]

(* the builder after build_query(&self): borrowed shared, no field assigned *)
after_build_query(self) == self

---------------------------------------------------------------------------
(* build_query *)

join_type_str(join_type) ==
    CASE join_type = "Inner" -> kwInnerJoin
      [] join_type = "Left" -> kwLeftJoin
      [] join_type = "Right" -> kwRightJoin
      [] join_type = "Full" -> kwFullOuterJoin

(* faulty variant: the ON condition keeps its WHERE keyword *)
join_fragment_keep_where(j) ==
    join_type_str(j.join_type) \o sp \o j.table \o kwOn
        \o generate_where_condition_str(Some(j.on_condition))

(* faulty variant: joins are rendered last registered first *)
join_clauses_reversed(self) ==
    IF is_some(self.joins)
    THEN [i \in 1..Len(unwrap(self.joins)) |->
            join_type_str(unwrap(self.joins)[Len(unwrap(self.joins)) + 1 - i].join_type)
                \o sp \o unwrap(self.joins)[Len(unwrap(self.joins)) + 1 - i].table
                \o kwOn
                \o replace(generate_where_condition_str(
                        Some(unwrap(self.joins)[Len(unwrap(self.joins)) + 1 - i].on_condition)),
                        kwWhere, empty)]
    ELSE <<>>

(* one element of join_clauses *)
join_fragment(j) ==
    join_type_str(j.join_type) \o sp \o j.table \o kwOn
        \o replace(generate_where_condition_str(Some(j.on_condition)), kwWhere, empty)

join_clauses(self) ==
    IF is_some(self.joins)
    THEN [i \in 1..Len(unwrap(self.joins)) |-> join_fragment(unwrap(self.joins)[i])]
    ELSE <<>>

having_str(self) ==
    generate_having_str(is_some(self.group_by), self.having_condition)

(* faulty variant: OFFSET is formatted before LIMIT *)
limit_offset_swapped(self) ==
    generate_offset_str(self.offset) \o sp \o generate_limit_str(self.limit)

limit_offset_str(self) ==
    generate_limit_str(self.limit) \o sp \o generate_offset_str(self.offset)

(* faulty variant: ORDER BY is passed to the format! before GROUP BY and HAVING *)
base_query_order_first(self) ==
    LET columns_str == join(self.columns, commaSp)
        table_name == IF is_some(self.table) THEN unwrap(self.table) ELSE empty
        distinct_str == IF self.distinct THEN kwDistinct ELSE empty
        join_clause == join(join_clauses(self), sp)
    IN  kwSelect \o distinct_str \o columns_str \o kwFrom \o table_name
            \o sp \o join_clause
            \o sp \o generate_where_condition_str(self.where_condition)
            \o sp \o generate_order_by_str(self.order_by)
            \o sp \o generate_group_by_str(self.group_by)
            \o sp \o having_str(self)
            \o sp \o limit_offset_str(self)

(* faulty variant: the format! string has one placeholder (and its space) too few: *)
(* LIMIT and OFFSET share the last slot without a separator of their own   *)
base_query_short_format(self) ==
    LET columns_str == join(self.columns, commaSp)
        table_name == IF is_some(self.table) THEN unwrap(self.table) ELSE empty
        distinct_str == IF self.distinct THEN kwDistinct ELSE empty
        join_clause == join(join_clauses(self), sp)
    IN  kwSelect \o distinct_str \o columns_str \o kwFrom \o table_name
            \o sp \o join_clause
            \o sp \o generate_where_condition_str(self.where_condition)
            \o sp \o generate_group_by_str(self.group_by)
            \o sp \o having_str(self)
            \o sp \o generate_order_by_str(self.order_by)
            \o limit_offset_str(self)

(* the format! that renders the statement without its set operations *)
base_query(self) ==
    LET columns_str == join(self.columns, commaSp)
        table_name == IF is_some(self.table) THEN unwrap(self.table) ELSE empty
        distinct_str == IF self.distinct THEN kwDistinct ELSE empty
        join_clause == join(join_clauses(self), sp)
    IN  kwSelect \o distinct_str \o columns_str \o kwFrom \o table_name
            \o sp \o join_clause
            \o sp \o generate_where_condition_str(self.where_condition)
            \o sp \o generate_group_by_str(self.group_by)
            \o sp \o having_str(self)
            \o sp \o generate_order_by_str(self.order_by)
            \o sp \o limit_offset_str(self)

RECURSIVE build_query(_)

(* the two loops over except_clauses and union_clauses: each turn formats *)
(* "{query}<keyword>{sub.build_query()}"                                   *)
RECURSIVE append_clauses(_, _, _)
append_clauses(query, keyword, clauses) ==
    IF clauses = <<>> THEN query
    ELSE append_clauses(query \o keyword \o build_query(clauses[1]),
                        keyword, Tail(clauses))

except_list(self) ==
    IF is_some(self.except_clauses) THEN unwrap(self.except_clauses) ELSE <<>>

union_list(self) ==
    IF is_some(self.union_clauses) THEN unwrap(self.union_clauses) ELSE <<>>

(* faulty variant: the sub-builders are rendered with the outer LIMIT and OFFSET *)
inherit_paging(self, clauses) ==
    [i \in 1..Len(clauses) |->
        [clauses[i] EXCEPT !.limit = self.limit, !.offset = self.offset]]

build_query_paging_leaks(self) ==
    append_clauses(
        append_clauses(base_query(self), kwExcept,
                       inherit_paging(self, except_list(self))),
        kwUnion, inherit_paging(self, union_list(self)))

build_query(self) ==
    append_clauses(
        append_clauses(base_query(self), kwExcept, except_list(self)),
        kwUnion, union_list(self))

---------------------------------------------------------------------------
(* Rows (the Table trait) and the MSSQL batch INSERT *)

kwInsertInto == <<"I", "N", "S", "E", "R", "T", " ", "I", "N", "T", "O", " ">>
kwValues == <<" ", "V", "A", "L", "U", "E", "S", " ">>
txNull == <<"N", "U", "L", "L">>
dquote == <<"\"">>
backslash == <<"\\">>

(* a row: its table name, its column names and, in the same order, the *)
(* text of its field values                                             *)
Row(name, fields, values) == [name |-> name, fields |-> fields, values |-> values]
get_name(table_row) == table_row.name
get_column_fields(table_row) == table_row.fields
get_column_values(table_row) == table_row.values

(* the derived Table impl tells an auto-increment key by its value text, *)
(* which is "NULL" for a key that holds no value                         *)
is_auto_increment_primary_key(table_row, value) == value = txNull

(* String::pop *)
pop(s) == IF s = <<>> THEN s ELSE SubSeq(s, 1, Len(s) - 1)

(* faulty variant: the value is quoted as it is, its quotes not doubled *)
RECURSIVE push_columns_unescaped(_, _, _, _, _)
push_columns_unescaped(table_row, column_fields, column_values, i, acc) ==
    IF i > Len(column_fields) \/ i > Len(column_values) THEN acc
    ELSE IF is_auto_increment_primary_key(table_row, column_values[i])
         THEN push_columns_unescaped(table_row, column_fields, column_values, i + 1, acc)
         ELSE push_columns_unescaped(table_row, column_fields, column_values, i + 1,
                << acc[1] \o column_fields[i] \o commaSp,
                   acc[2] \o quote \o column_values[i] \o quote \o commaSp >>)

(* the loop over column_fields.iter().zip(column_values.iter()): the pair *)
(* <<columns_str, values_str>> after the pairs from position i on         *)
RECURSIVE push_columns(_, _, _, _, _)
push_columns(table_row, column_fields, column_values, i, acc) ==
    IF i > Len(column_fields) \/ i > Len(column_values) THEN acc
    ELSE IF is_auto_increment_primary_key(table_row, column_values[i])
         THEN push_columns(table_row, column_fields, column_values, i + 1, acc)
         ELSE LET escaped_value == replace(column_values[i], quote, quote \o quote)
              IN  push_columns(table_row, column_fields, column_values, i + 1,
                     << acc[1] \o column_fields[i] \o commaSp,
                        acc[2] \o quote \o escaped_value \o quote \o commaSp >>)

(* faulty variant: the auto-increment check is missing from the loop *)
RECURSIVE push_all_columns(_, _, _, _, _)
push_all_columns(table_row, column_fields, column_values, i, acc) ==
    IF i > Len(column_fields) \/ i > Len(column_values) THEN acc
    ELSE LET escaped_value == replace(column_values[i], quote, quote \o quote)
         IN  push_all_columns(table_row, column_fields, column_values, i + 1,
                << acc[1] \o column_fields[i] \o commaSp,
                   acc[2] \o quote \o escaped_value \o quote \o commaSp >>)

format_statement(table_row, first_statement, pushed) ==
    LET table_name ==
            replace(replace(get_name(table_row), dquote, empty), backslash, empty)
        columns_str == IF pushed[1] # <<>> THEN pop(pop(pushed[1])) ELSE pushed[1]
        values_str == IF pushed[2] # <<>> THEN pop(pop(pushed[2])) ELSE pushed[2]
    IN  IF first_statement
        THEN kwInsertInto \o table_name \o <<" ", "(">> \o columns_str
                \o <<")">> \o kwValues \o <<"(">> \o values_str \o <<")">>
        ELSE <<"(">> \o values_str \o <<")">>

generate_statement_no_skip(table_row, first_statement) ==
    format_statement(table_row, first_statement,
        push_all_columns(table_row, get_column_fields(table_row),
                         get_column_values(table_row), 1, <<empty, empty>>))

(* generate_statement never returns Err: the result is the Ok text *)
generate_statement(table_row, first_statement) ==
    format_statement(table_row, first_statement,
        push_columns(table_row, get_column_fields(table_row),
                     get_column_values(table_row), 1, <<empty, empty>>))

(* faulty variant: every row is generated as a first statement *)
collect_statements_all_first(table_rows) ==
    [i \in 1..Len(table_rows) |-> generate_statement(table_rows[i], TRUE)]

(* the loop of insert(): one statement per row, the first flagged by *)
(* index == 0                                                        *)
collect_statements(table_rows) ==
    [i \in 1..Len(table_rows) |-> generate_statement(table_rows[i], i = 1)]

(* faulty variant: the table name is interpolated as the row type gives it *)
generate_insert_into_statement_raw_name(table_row, columns, subquery) ==
    kwInsertInto \o get_name(table_row) \o <<" ", "(">>
        \o join(columns, commaSp) \o <<")", " ">> \o build_query(subquery)

(* generate_insert_into_statement::<T>(columns, subquery), table_row being *)
(* T::default(); it never returns Err: the result is the Ok text            *)
generate_insert_into_statement(table_row, columns, subquery) ==
    LET columns_str == join(columns, commaSp)
        subquery_str == build_query(subquery)
        table_name ==
            replace(replace(get_name(table_row), dquote, empty), backslash, empty)
    IN  kwInsertInto \o table_name \o <<" ", "(">> \o columns_str
            \o <<")", " ">> \o subquery_str

---------------------------------------------------------------------------
(* Inputs of the fluent calls *)

InitColumns == <<cId, cUsername>>
ColumnLists == { <<cId>> }
Conditions == { Eq(cUsername, vMjovanc),
                And(Eq(cUsername, vMjovanc), Gt(cId, vOther)) }
HavingConditions == { Gt(cId, vOther) }
GroupByLists == { <<>>, <<cUsername, cEmail>> }
OrderBys == { << [columns |-> <<cEmail>>, order |-> kwAsc] >> }
Limits == { 1 }
Offsets == { 0 }
JoinTypes == { "Inner", "Left", "Right", "Full" }
cElsewhere == <<"E", "L", "S", "E", "W", "H", "E", "R", "E">>
OnConditions == { Eq(cId, vOther), Eq(cElsewhere, vOther) }
(* every kind of join, and one join on a column whose name holds WHERE *)
JoinInputs ==
    { <<t, c>> \in JoinTypes \X OnConditions : c.col = cId \/ t = "Inner" }

(* builders handed to except() and union(), each made by a fluent chain *)
SubPlain == where_clause(from(new(<<cId>>), tUsers), Eq(cUsername, vOther))
SubLimited == offset(limit(from(new(<<cEmail>>), tUsers), 12), 3)
SubNested == except(from(new(<<cId>>), tProducts), SubPlain)
SubQueries == { SubPlain, SubLimited, SubNested }

---------------------------------------------------------------------------
(* The fluent chain: each action is one builder call on q, after which the *)
(* caller renders the builder with build_query.                            *)

Chain(b, name) ==
    /\ calls < MaxCalls
    /\ q' = b
    /\ sql' = build_query(b)
    /\ last' = name
    /\ calls' = calls + 1
    /\ UNCHANGED <<insertVars, executeVars, keyVars>>

Select == \E c \in ColumnLists : Chain(select(q, c), "select") /\ UNCHANGED reg
Distinct == Chain(distinct(q), "distinct") /\ UNCHANGED reg
From == Chain(from(q, tUsers), "from") /\ UNCHANGED reg
WhereClause == \E c \in Conditions : Chain(where_clause(q, c), "where_clause") /\ UNCHANGED reg
GroupBy == \E c \in GroupByLists : Chain(group_by(q, c), "group_by") /\ UNCHANGED reg
OrderBy == \E o \in OrderBys : Chain(order_by(q, o), "order_by") /\ UNCHANGED reg
Limit == \E n \in Limits : Chain(limit(q, n), "limit") /\ UNCHANGED reg
Offset == \E n \in Offsets : Chain(offset(q, n), "offset") /\ UNCHANGED reg
Having == \E c \in HavingConditions : Chain(having(q, c), "having") /\ UNCHANGED reg
Join == \E j \in JoinInputs :
            Chain(join_(q, j[1], tProducts, j[2]), "join") /\ UNCHANGED reg
Except == \E o \in SubQueries :
            /\ Chain(except(q, o), "except")
            /\ reg' = Append(reg, [kind |-> "except", query |-> o])
Union == \E o \in SubQueries :
            /\ Chain(union(q, o), "union")
            /\ reg' = Append(reg, [kind |-> "union", query |-> o])

(* a further build_query() on the builder as it is *)
BuildQuery == Chain(after_build_query(q), "build_query") /\ UNCHANGED reg

Init ==
    /\ q = new(InitColumns)
    /\ sql = build_query(new(InitColumns))
    /\ last = "new"
    /\ reg = <<>>
    /\ calls = 0
    /\ rows = <<>>
    /\ statements = <<>>
    /\ sent = None
    /\ answered = <<>>
    /\ result = "none"
    /\ into_args = None
    /\ conn = None
    /\ results = <<>>
    /\ outcome = "none"
    /\ key = None
    /\ shown = None
    /\ parsed = None
    /\ got = None
    /\ life = [made |-> "none", set |-> None, last |-> "none"]
    /\ cell = None

Next ==
    \/ Select
    \/ Distinct
    \/ From
    \/ WhereClause
    \/ GroupBy
    \/ OrderBy
    \/ Limit
    \/ Offset
    \/ Having
    \/ Join
    \/ Except
    \/ Union
    \/ BuildQuery

Spec == Init /\ [][Next]_vars

---------------------------------------------------------------------------
(* insert(): the rows of a batch are of one row type *)

vSeven == <<"7">>
vAl == <<"a", "l">>
vOBrien == <<"o", "'", "b">>
tQuoted == <<"u", "s", "\"", "e", "\\", "r", "s">>

TableNames == { tUsers, tQuoted }
IdTexts == { txNull, vSeven }
NameTexts == { vAl, vOBrien, txNull }
RowsOf(name) ==
    { Row(name, <<cId, cUsername>>, <<i, u>>) : i \in IdTexts, u \in NameTexts }
Batches(name) ==
    UNION { [1..n -> RowsOf(name)] : n \in 0..MaxRows }

(* faulty variant: a rejected statement is sent a second time *)
query_batch_retried(joined_statements, backend_ok) ==
    IF backend_ok
    THEN [sent |-> <<joined_statements>>, answered |-> <<TRUE>>, result |-> "Ok"]
    ELSE [sent |-> <<joined_statements, joined_statements>>,
          answered |-> <<FALSE, FALSE>>, result |-> "Err(InvalidQuery)"]

(* the match on conn.client.query(&joined_statements, &[]).await: what was *)
(* handed to the backend, what it answered, what insert() returns          *)
query_batch(joined_statements, backend_ok) ==
    [sent |-> Some(joined_statements),
     answered |-> <<backend_ok>>,
     result |-> IF backend_ok THEN "Ok" ELSE "Err(InvalidQuery)"]

(* one call of insert(conn, table_rows); the backend accepts or rejects *)
(* the statement                                                        *)
Insert ==
    \E name \in TableNames : \E table_rows \in Batches(name) :
    \E backend_ok \in BOOLEAN :
        /\ rows' = table_rows
        /\ statements' = collect_statements(table_rows)
        /\ sent' = query_batch(join(statements', commaSp), backend_ok).sent
        /\ answered' = query_batch(join(statements', commaSp), backend_ok).answered
        /\ result' = query_batch(join(statements', commaSp), backend_ok).result
        /\ into_args' = None
        /\ UNCHANGED <<builderVars, executeVars, keyVars>>

NextInsert == Insert

(* one call of into::<T>(conn, columns, subquery). What conn.client.execute *)
(* returns is dropped unread (let _ =) and never awaited: the backend may   *)
(* never run the statement, run it, or reject it, and into() cannot tell    *)
IntoColumns == { <<cId>>, <<cId, cUsername>>, <<cUsername, cEmail>> }
BackendRuns == { "never", "ok", "failed" }

Into ==
    \E name \in TableNames, columns \in IntoColumns, subquery \in SubQueries,
       backend \in BackendRuns :
        /\ into_args' = Some([name |-> name, columns |-> columns,
                              subquery |-> subquery, backend |-> backend])
        /\ rows' = <<>>
        /\ statements' =
            << generate_insert_into_statement(Row(name, <<>>, <<>>),
                                              columns, subquery) >>
        /\ sent' = IF backend = "never" THEN None ELSE Some(statements'[1])
        /\ answered' = <<>>
        /\ result' = "Ok"
        /\ UNCHANGED <<builderVars, executeVars, keyVars>>

NextInto ==
    \/ Insert
    \/ Into

SpecInto == Init /\ [][NextInto]_vars

SpecInsert == Init /\ [][NextInsert]_vars

---------------------------------------------------------------------------
(* build() and raw_execute(): the rendered statement is handed to the      *)
(* backend, and every row the backend yields is turned into a row instance *)

(* a mysql::Value is a record with its variant in tag and the variant's *)
(* fields under the names of the match arms; Float and Double are        *)
(* modelled for whole numbers only                                       *)

(* i64::to_string *)
int_to_string(i) == IF i < 0 THEN <<"-">> \o to_string(0 - i) ELSE to_string(i)

(* faulty variant: the number is written without padding *)
pad_none(n, w) == to_string(n)

(* format!("{:0w$}", n): zero padding on the left up to width w *)
pad(n, w) ==
    IF Len(to_string(n)) >= w THEN to_string(n)
    ELSE [i \in 1..(w - Len(to_string(n))) |-> "0"] \o to_string(n)

(* the match on column_value *)
column_value_str(column_value) ==
    CASE column_value.tag = "NULL" -> txNull
      [] column_value.tag = "Bytes" -> column_value.bytes
      [] column_value.tag = "Int" -> int_to_string(column_value.i)
      [] column_value.tag = "UInt" -> to_string(column_value.u)
      [] column_value.tag = "Double" -> int_to_string(column_value.d)
      [] column_value.tag = "Date" ->
            pad(column_value.year, 4) \o <<"-">> \o pad(column_value.month, 2)
                \o <<"-">> \o pad(column_value.day, 2) \o sp
                \o pad(column_value.hour, 2) \o <<":">> \o pad(column_value.min, 2)
                \o <<":">> \o pad(column_value.sec, 2) \o <<".">>
                \o pad(column_value.micro, 6)
      [] column_value.tag = "Time" ->
            (IF column_value.neg THEN <<"-">> ELSE empty)
                \o pad(column_value.days * 24 + column_value.hours, 2)
                \o <<":">> \o pad(column_value.minutes, 2)
                \o <<":">> \o pad(column_value.seconds, 2) \o <<".">>
                \o pad(column_value.micros, 6)

(* a backend row is the sequence of its columns, [name, value] each *)

(* row[name]: the cell of the first column that bears the name *)
row_index(row, name) ==
    row[CHOOSE i \in 1..Len(row) :
            /\ row[i].name = name
            /\ \A j \in 1..(i - 1) : row[j].name # name].value

(* a row instance is the record of what it was given: T::default() has *)
(* received nothing, set_column_value adds one (name, text) pair        *)
T_default == <<>>
set_column_value(instance, name, value) ==
    Append(instance, [name |-> name, text |-> value])

(* the inner loop over row.columns_ref() *)
RECURSIVE fill_instance(_, _, _)
fill_instance(row, i, instance) ==
    IF i > Len(row) THEN instance
    ELSE fill_instance(row, i + 1,
            set_column_value(instance, row[i].name,
                column_value_str(row_index(row, row[i].name))))

(* the loop over query_set: unwrap() of a failed row panics *)
RECURSIVE collect_rows(_, _, _)
collect_rows(query_set, i, list) ==
    IF i > Len(query_set) THEN [outcome |-> "Ok", results |-> list]
    ELSE IF ~query_set[i].ok THEN [outcome |-> "panic", results |-> <<>>]
    ELSE collect_rows(query_set, i + 1,
            Append(list, fill_instance(query_set[i].row, 1, T_default)))

(* unwrap() of a failed query_iter panics *)
raw_execute(backend) ==
    IF ~backend.query_iter_ok THEN [outcome |-> "panic", results |-> <<>>]
    ELSE collect_rows(backend.query_set, 1, <<>>)

(* rows a backend may yield: users rows, a row of a join with two columns *)
(* named id, a row with a DATETIME and a TIME, a row with a DOUBLE        *)
BackendRows ==
    LET Column(name, value) == [name |-> name, value |-> value]
        Signed(i) == [tag |-> "Int", i |-> i]
        Null == [tag |-> "NULL"]
    IN  { <<Column(cId, i), Column(cUsername, u)>> :
            i \in { Signed(7), [tag |-> "UInt", u |-> 12], Null },
            u \in { [tag |-> "Bytes", bytes |-> vAl], Null } }
        \cup
        { <<Column(cId, Signed(7)), Column(cId, Signed(0 - 3))>>,
          <<Column(<<"c", "r", "e", "a", "t", "e", "d">>,
                [tag |-> "Date", year |-> 2024, month |-> 1, day |-> 5,
                 hour |-> 9, min |-> 3, sec |-> 7, micro |-> 25]),
            Column(<<"e", "l", "a", "p", "s", "e", "d">>,
                [tag |-> "Time", neg |-> TRUE, days |-> 1, hours |-> 2,
                 minutes |-> 3, seconds |-> 4, micros |-> 5])>>,
          <<Column(<<"p", "r", "i", "c", "e">>, [tag |-> "Double", d |-> 3])>> }

(* what a backend may do with a statement: refuse it, or yield rows, any *)
(* of which may fail to arrive                                           *)
Backends ==
    LET RowResults == { [ok |-> FALSE, row |-> <<>>] }
                        \cup { [ok |-> TRUE, row |-> r] : r \in BackendRows }
    IN  { [query_iter_ok |-> FALSE, query_set |-> <<>>] }
        \cup { [query_iter_ok |-> TRUE, query_set |-> s] :
                s \in UNION { [1..n -> RowResults] : n \in 0..MaxBackendRows } }

(* one call of build(conn): render, then raw_execute *)
Build ==
    \E backend \in Backends :
        /\ sql' = build_query(q)
        /\ conn' = Some(backend)
        /\ results' = raw_execute(backend).results
        /\ outcome' = raw_execute(backend).outcome
        /\ UNCHANGED <<q, last, reg, calls, cell, insertVars, keyVars>>

NextExecute ==
    \/ From
    \/ Build

SpecExecute == Init /\ [][NextExecute]_vars

(* Value::Time and Value::Date values a column of a backend row may hold *)
DriverValues ==
    { [tag |-> "Time", neg |-> n, days |-> d, hours |-> h,
       minutes |-> m, seconds |-> sec, micros |-> u] :
        n \in BOOLEAN, d \in {0, 1, MaxDays}, h \in {0, 9, 23},
        m \in {0, 59}, sec \in {4, 59}, u \in {0, 25, 999999} }
    \cup
    { [tag |-> "Date", year |-> y, month |-> mo, day |-> d, hour |-> h,
       min |-> 3, sec |-> 7, micro |-> u] :
        y \in {0, 987, 2024}, mo \in {1, 12}, d \in {5, 31}, h \in {0, 23},
        u \in {0, 25, 999999} }

(* the match on column_value for one cell of a row *)
Convert ==
    \E column_value \in DriverValues :
        /\ cell' = Some([value |-> column_value,
                         text |-> column_value_str(column_value)])
        /\ UNCHANGED <<conn, results, outcome, builderVars, insertVars, keyVars>>

NextConvert == Convert

SpecConvert == Init /\ [][NextConvert]_vars

---------------------------------------------------------------------------
(* keys.rs: PrimaryKey<T>(T) and AutoIncrementPrimaryKey<T>(Option<T>) for *)
(* an unsigned integer type T with values 0..MaxKey                        *)

(* str::parse::<T>() as an Option: None where the code gets Err. An       *)
(* unsigned integer is an optional "+" and one or more decimal digits, and *)
(* must not exceed T::MAX                                                  *)
RECURSIVE parse_digits(_, _)
parse_digits(s, acc) ==
    IF s = <<>> THEN acc
    ELSE parse_digits(Tail(s),
            acc * 10 + (CHOOSE d \in 0..9 : digit(d) = s[1]))

parse(s) ==
    LET digits == IF s # <<>> /\ s[1] = "+" THEN Tail(s) ELSE s
    IN  IF digits = <<>> THEN None
        ELSE IF \E i \in 1..Len(digits) : \A d \in 0..9 : digit(d) # digits[i]
        THEN None
        ELSE IF parse_digits(digits, 0) > MaxKey THEN None
        ELSE Some(parse_digits(digits, 0))

PrimaryKey_new(value) == [kind |-> "PrimaryKey", value |-> value]
AutoIncrementPrimaryKey_new(value) ==
    [kind |-> "AutoIncrementPrimaryKey", value |-> value]

(* Display::fmt of either key *)
fmt(self) ==
    IF self.kind = "PrimaryKey" THEN to_string(self.value)
    ELSE IF is_some(self.value) THEN to_string(unwrap(self.value))
    ELSE txNull

(* faulty variant: a text that does not parse is an Err for both keys *)
from_str_strict(kind, s) ==
    IF is_some(parse(s))
    THEN [ok |-> TRUE,
          key |-> IF kind = "PrimaryKey" THEN PrimaryKey_new(unwrap(parse(s)))
                  ELSE AutoIncrementPrimaryKey_new(parse(s))]
    ELSE [ok |-> FALSE, key |-> None]

(* faulty variant: a PrimaryKey text that does not parse gives T::default() *)
from_str_lenient(kind, s) ==
    IF kind = "PrimaryKey"
    THEN [ok |-> TRUE,
          key |-> PrimaryKey_new(IF is_some(parse(s)) THEN unwrap(parse(s)) ELSE 0)]
    ELSE [ok |-> TRUE, key |-> AutoIncrementPrimaryKey_new(parse(s))]

(* FromStr::from_str of either key: Ok(key) or Err *)
from_str(kind, s) ==
    IF kind = "PrimaryKey"
    THEN IF is_some(parse(s))
         THEN [ok |-> TRUE, key |-> PrimaryKey_new(unwrap(parse(s)))]
         ELSE [ok |-> FALSE, key |-> None]
    ELSE IF is_some(parse(s))
         THEN [ok |-> TRUE, key |-> AutoIncrementPrimaryKey_new(Some(unwrap(parse(s))))]
         ELSE [ok |-> TRUE, key |-> AutoIncrementPrimaryKey_new(None)]

(* Default::default() of AutoIncrementPrimaryKey *)
AutoIncrementPrimaryKey_default == [kind |-> "AutoIncrementPrimaryKey", value |-> None]

(* AutoIncrementPrimaryKey::get: self.0.as_ref() *)
get(self) == self.value

(* faulty variant: set keeps a value the key already holds *)
set_if_empty(self, value) ==
    IF is_some(self.value) THEN self ELSE [self EXCEPT !.value = Some(value)]

(* AutoIncrementPrimaryKey::set: self.0 = Some(value) *)
set(self, value) == [self EXCEPT !.value = Some(value)]

(* texts a key column of a backend row can hold *)
ColumnTexts ==
    {txNull, <<>>, <<"7">>, <<"+", "7">>, <<"1", "2">>, <<"0", "7">>,
     <<"9", "9">>, <<"-", "1">>, <<"a", "b", "c">>, <<"7", " ">>}

(* PrimaryKey::new(v), AutoIncrementPrimaryKey::new(Some(v)) or *)
(* AutoIncrementPrimaryKey::new(None)                            *)
KeyNew ==
    /\ \/ \E v \in 0..MaxKey : key' = Some(PrimaryKey_new(v))
       \/ \E v \in 0..MaxKey : key' = Some(AutoIncrementPrimaryKey_new(Some(v)))
       \/ key' = Some(AutoIncrementPrimaryKey_new(None))
    /\ shown' = None
    /\ parsed' = None
    /\ got' = None
    /\ life' = [made |-> "new", set |-> None, last |-> "new"]
    /\ UNCHANGED <<builderVars, insertVars, executeVars>>

(* AutoIncrementPrimaryKey::default() *)
KeyDefault ==
    /\ key' = Some(AutoIncrementPrimaryKey_default)
    /\ shown' = None
    /\ parsed' = None
    /\ got' = None
    /\ life' = [made |-> "default", set |-> None, last |-> "default"]
    /\ UNCHANGED <<builderVars, insertVars, executeVars>>

(* key.set(v) on an AutoIncrementPrimaryKey; what was read from the key *)
(* before belongs to its old value and is dropped                      *)
KeySet ==
    /\ is_some(key)
    /\ unwrap(key).kind = "AutoIncrementPrimaryKey"
    /\ \E v \in 0..MaxKey :
        /\ key' = Some(set(unwrap(key), v))
        /\ life' = [life EXCEPT !.set = Some(v), !.last = "set"]
    /\ shown' = None
    /\ parsed' = None
    /\ got' = None
    /\ UNCHANGED <<builderVars, insertVars, executeVars>>

(* key.get() on an AutoIncrementPrimaryKey *)
KeyGet ==
    /\ is_some(key)
    /\ unwrap(key).kind = "AutoIncrementPrimaryKey"
    /\ got' = Some(get(unwrap(key)))
    /\ life' = [life EXCEPT !.last = "get"]
    /\ UNCHANGED <<key, shown, parsed, builderVars, insertVars, executeVars>>

(* key.to_string() *)
KeyDisplay ==
    /\ is_some(key)
    /\ shown' = Some(fmt(unwrap(key)))
    /\ parsed' = None
    /\ life' = [life EXCEPT !.last = "to_string"]
    /\ UNCHANGED <<key, got, builderVars, insertVars, executeVars>>

(* row population reads the text of a key column of a backend row *)
KeyColumn ==
    /\ is_some(key)
    /\ \E s \in ColumnTexts : shown' = Some(s)
    /\ parsed' = None
    /\ life' = [life EXCEPT !.last = "column"]
    /\ UNCHANGED <<key, got, builderVars, insertVars, executeVars>>

(* shown.parse::<Key>() *)
KeyFromStr ==
    /\ is_some(shown)
    /\ parsed' = Some(from_str(unwrap(key).kind, unwrap(shown)))
    /\ life' = [life EXCEPT !.last = "parse"]
    /\ UNCHANGED <<key, shown, got, builderVars, insertVars, executeVars>>

NextKeys ==
    \/ KeyNew
    \/ KeyDefault
    \/ KeySet
    \/ KeyGet
    \/ KeyDisplay
    \/ KeyColumn
    \/ KeyFromStr

SpecKeys == Init /\ [][NextKeys]_vars

---------------------------------------------------------------------------
(* Reading a rendered text *)

kwSelectWord == <<"S", "E", "L", "E", "C", "T">>
kwDistinctWord == <<"D", "I", "S", "T", "I", "N", "C", "T">>
kwFromWord == <<"F", "R", "O", "M">>
kwJoinWord == <<"J", "O", "I", "N">>

(* the positions at which pat starts in t *)
occurrences(t, pat) ==
    { i \in 1..(Len(t) - Len(pat) + 1) :
        /\ t[i] = pat[1]
        /\ t[i + Len(pat) - 1] = pat[Len(pat)]
        /\ SubSeq(t, i, i + Len(pat) - 1) = pat }

count(t, pat) == Cardinality(occurrences(t, pat))
contains(t, pat) == occurrences(t, pat) # {}
ends_with(t, pat) ==
    /\ Len(pat) <= Len(t)
    /\ SubSeq(t, Len(t) - Len(pat) + 1, Len(t)) = pat

(* where the first EXCEPT or UNION keyword of a text starts; Len + 1 if none *)
least(positions, otherwise) ==
    IF positions = {} THEN otherwise
    ELSE CHOOSE i \in positions : \A j \in positions : i <= j

first_set_op(t) ==
    least(occurrences(t, kwExcept) \cup occurrences(t, kwUnion), Len(t) + 1)

(* the base statement of a text, and its set-operation clauses *)
base_part(t) == SubSeq(t, 1, first_set_op(t) - 1)
set_op_part(t) == SubSeq(t, first_set_op(t), Len(t))

(* the text the set operations add when rendered in the order of a history *)
RECURSIVE registered_text(_)
registered_text(h) ==
    IF h = <<>> THEN <<>>
    ELSE (IF h[1].kind = "except" THEN kwExcept ELSE kwUnion)
            \o build_query(h[1].query) \o registered_text(Tail(h))

(* how many builders of a tree of builders have a WHERE condition *)
RECURSIVE where_count(_)
RECURSIVE where_count_all(_)
where_count_all(list) ==
    IF list = <<>> THEN 0
    ELSE where_count(list[1]) + where_count_all(Tail(list))
where_count(b) ==
    (IF is_some(b.where_condition) THEN 1 ELSE 0)
        + where_count_all(except_list(b)) + where_count_all(union_list(b))

---------------------------------------------------------------------------
(* C1: whatever the order of the fluent calls, the base statement has its  *)
(* clauses in the order SELECT, DISTINCT, FROM, joins, WHERE, GROUP BY,    *)
(* HAVING, ORDER BY, LIMIT, OFFSET: every clause that is set is rendered,  *)
(* and every occurrence of an earlier clause's keyword precedes every      *)
(* occurrence of a later clause's keyword.                                 *)
ClauseOrder ==
    <<kwSelectWord, kwDistinctWord, kwFromWord, kwJoinWord, kwWhere,
      kwGroupBy, kwHaving, kwOrderBy, kwLimit, kwOffset>>

C1_ClauseOrderFixed ==
    \A base \in {base_part(sql)} :
    \A at \in {[k \in 1..Len(ClauseOrder) |-> occurrences(base, ClauseOrder[k])]} :
    /\ \A i \in 1..Len(ClauseOrder) : \A j \in (i + 1)..Len(ClauseOrder) :
          \A x \in at[i] : \A y \in at[j] : x < y
    /\ at[1] = {1}
    /\ Cardinality(at[3]) = 1
    /\ q.distinct => at[2] # {}
    /\ is_some(q.joins) => at[4] # {}
    /\ is_some(q.where_condition) => at[5] # {}
    /\ (is_some(q.group_by) /\ unwrap(q.group_by) # <<>>) => at[6] # {}
    /\ is_some(q.order_by) => at[8] # {}
    /\ is_some(q.limit) => at[9] # {}
    /\ is_some(q.offset) => at[10] # {}

(* order_by was called before group_by, and both clauses are rendered *)
C1_Witness ==
    /\ last = "group_by"
    /\ is_some(q.order_by)
    /\ contains(sql, kwGroupBy)
    /\ contains(sql, kwOrderBy)

---------------------------------------------------------------------------
(* C2: the scenario builder: projections [id, username], table users,      *)
(* WHERE Eq(username, mjovanc), nothing else set.                          *)
ScenarioBuilder ==
    where_clause(from(new(<<cId, cUsername>>), tUsers), Eq(cUsername, vMjovanc))

ScenarioTextClaimed == <<"S", "E", "L", "E", "C", "T", " ", "i", "d", ",", " ", "u", "s", "e", "r", "n", "a", "m", "e", " ", "F", "R", "O", "M", " ", "u", "s", "e", "r", "s", " ", " ", "W", "H", "E", "R", "E", " ", "u", "s", "e", "r", "n", "a", "m", "e", " ", "=", " ", "'", "m", "j", "o", "v", "a", "n", "c", "'", " ", " ", " ">>
ScenarioTextRendered == <<"S", "E", "L", "E", "C", "T", " ", "i", "d", ",", " ", "u", "s", "e", "r", "n", "a", "m", "e", " ", "F", "R", "O", "M", " ", "u", "s", "e", "r", "s", " ", " ", "W", "H", "E", "R", "E", " ", "u", "s", "e", "r", "n", "a", "m", "e", " ", "=", " ", "'", "m", "j", "o", "v", "a", "n", "c", "'", " ", " ", " ", " ", " ">>

(* C2 as claimed: the scenario renders with two spaces before WHERE and    *)
(* three spaces after the condition.                                       *)
C2_ScenarioAsClaimed == (q = ScenarioBuilder) => sql = ScenarioTextClaimed

(* C2 amended: the scenario renders with two spaces before WHERE and five  *)
(* spaces after the condition (the empty GROUP BY, HAVING, ORDER BY slots, *)
(* and the space between the empty LIMIT and OFFSET).                      *)
C2_ScenarioRendered == (q = ScenarioBuilder) => sql = ScenarioTextRendered

C2_Witness == q = ScenarioBuilder /\ last = "where_clause"

---------------------------------------------------------------------------
(* C3 as claimed: a builder on which where_clause was never called renders *)
(* no WHERE token, and one on which it was called renders exactly one.     *)
C3_OneWhereAsClaimed ==
    count(sql, kwWhere) = (IF is_some(q.where_condition) THEN 1 ELSE 0)

(* C3 amended: the text has one WHERE token for each builder, among the    *)
(* builder and the EXCEPT/UNION sub-builders registered on it, on which    *)
(* where_clause was called (JOIN ON conditions add none); its base         *)
(* statement has none if where_clause was never called on the builder and  *)
(* exactly one if it was.                                                  *)
C3_WherePerBuilder ==
    /\ count(sql, kwWhere) = where_count(q)
    /\ count(base_part(sql), kwWhere) = (IF is_some(q.where_condition) THEN 1 ELSE 0)

(* where_clause called on a builder that has a join and a sub-builder with *)
(* a WHERE of its own                                                      *)
C3_Witness ==
    /\ last = "where_clause"
    /\ is_some(q.joins)
    /\ where_count(q) = 2

---------------------------------------------------------------------------
(* C4: HAVING is rendered only in a statement that renders GROUP BY and    *)
(* whose HAVING condition is set.                                          *)
C4_HavingOnlyWithGroupBy ==
    \A base \in {base_part(sql)} :
        contains(base, kwHaving) =>
            (contains(base, kwGroupBy) /\ is_some(q.having_condition))

---------------------------------------------------------------------------
(* C5: after a chain of except calls only, or of union calls only, the     *)
(* text is the base statement followed by one " EXCEPT " (or " UNION ")    *)
(* clause for each registered sub-builder, in registration order.          *)
C5_ChainInOrder ==
    (\A i \in 1..Len(reg) : reg[i].kind = reg[1].kind) =>
        sql = base_query(q) \o registered_text(reg)

(* two different sub-builders chained with except *)
C5_Witness ==
    /\ Len(reg) = 2
    /\ reg[1].kind = "except" /\ reg[2].kind = "except"
    /\ reg[1].query # reg[2].query

---------------------------------------------------------------------------
(* C6: when except and union calls are interleaved, the set-operation      *)
(* clauses appear in the text in the order the calls were registered.      *)
C6_InterleavedInOrder == set_op_part(sql) = registered_text(reg)

---------------------------------------------------------------------------
(* the outer LIMIT and OFFSET are rendered before the first EXCEPT or     *)
(* UNION keyword                                                          *)
C7_PagingBeforeSetOps ==
    \A base \in {base_part(sql)} :
    /\ is_some(q.limit) =>
          contains(base, kwLimit \o sp \o to_string(unwrap(q.limit)))
    /\ is_some(q.offset) =>
          contains(base, kwOffset \o sp \o to_string(unwrap(q.offset)))

(* C7: in every state the outer paging is rendered before the set        *)
(* operations, and no step that keeps the sub-builder lists changes the   *)
(* text rendered for the sub-queries.                                     *)
C7_SubQueriesUntouched ==
    [](C7_PagingBeforeSetOps)
    /\ [][ (q'.except_clauses = q.except_clauses
            /\ q'.union_clauses = q.union_clauses)
           => set_op_part(sql') = set_op_part(sql) ]_vars

(* limit called on a builder that already has a sub-builder *)
C7_Witness ==
    /\ last = "limit"
    /\ reg # <<>>
    /\ set_op_part(sql) # <<>>

---------------------------------------------------------------------------
(* C8: the base statement ends with the LIMIT text, one space, the OFFSET  *)
(* text, each present iff its value is set, LIMIT before OFFSET.           *)
C8_LimitOffsetIndependent ==
    LET lim == IF is_some(q.limit)
               THEN kwLimit \o sp \o to_string(unwrap(q.limit)) ELSE <<>>
        off == IF is_some(q.offset)
               THEN kwOffset \o sp \o to_string(unwrap(q.offset)) ELSE <<>>
    IN  \A base \in {base_part(sql)} :
        \A atLimit \in {occurrences(base, kwLimit)} :
        \A atOffset \in {occurrences(base, kwOffset)} :
        /\ atLimit # {} <=> is_some(q.limit)
        /\ atOffset # {} <=> is_some(q.offset)
        /\ Cardinality(atLimit) <= 1 /\ Cardinality(atOffset) <= 1
        /\ ends_with(base, sp \o lim \o sp \o off)
        /\ \A x \in atLimit : \A y \in atOffset : x < y

(* offset without limit *)
C8_Witness ==
    /\ is_some(q.offset)
    /\ ~is_some(q.limit)
    /\ contains(base_part(sql), kwOffset)

---------------------------------------------------------------------------
(* Reading a generated INSERT statement *)

(* a value as an SQL literal: every single quote doubled, then quoted *)
literal(v) ==
    quote \o join([i \in 1..Len(v) |->
                      IF <<v[i]>> = quote THEN quote \o quote ELSE <<v[i]>>], empty)
          \o quote

(* the (column name, value text) pairs of a row that are not identified as *)
(* the auto-increment key, in declaration order                            *)
kept_pairs(row) ==
    LET pairs == [i \in 1..Len(row.fields) |-> <<row.fields[i], row.values[i]>>]
        Kept(p) == ~is_auto_increment_primary_key(row, p[2])
    IN  SelectSeq(pairs, Kept)

column_list(row) ==
    <<"(">> \o join([i \in 1..Len(kept_pairs(row)) |-> kept_pairs(row)[i][1]],
                    commaSp) \o <<")">>

value_tuple(row) ==
    <<"(">> \o join([i \in 1..Len(kept_pairs(row)) |-> literal(kept_pairs(row)[i][2])],
                    commaSp) \o <<")">>

(* the text that follows the first occurrence of pat in t *)
after_first(t, pat) ==
    LET at == occurrences(t, pat)
        i == CHOOSE x \in at : \A y \in at : x <= y
    IN  SubSeq(t, i + Len(pat), Len(t))

---------------------------------------------------------------------------
(* C9: for a batch of N >= 1 rows the backend receives one statement: it   *)
(* starts with the only INSERT INTO, has one VALUES, and after it the      *)
(* value tuple of the first row and the N-1 bare value tuples of the other *)
(* rows, in batch order, joined by ", ".                                   *)
C9_OneInsertThenTuples ==
    (Len(rows) >= 1) =>
        /\ Len(sent) = 1
        /\ \A text \in {unwrap(sent)} :
            /\ occurrences(text, kwInsertInto) = {1}
            /\ count(text, kwValues) = 1
            /\ after_first(text, kwValues) =
                  join([k \in 1..Len(rows) |-> value_tuple(rows[k])], commaSp)

(* a batch of two different rows was sent *)
C9_Witness ==
    /\ Len(rows) = 2
    /\ rows[1] # rows[2]
    /\ is_some(sent)

---------------------------------------------------------------------------
(* C10: in the statement generated for a row, the columns that             *)
(* is_auto_increment_primary_key identifies from that row's values are in  *)
(* neither the column list nor the value tuple, and every other column is  *)
(* there exactly once, names and values in declaration order.              *)
C10_AutoIncrementSkipped ==
    /\ Len(statements) = Len(rows)
    /\ \A k \in 1..Len(rows) :
          IF k = 1
          THEN /\ SubSeq(statements[1], 1, Len(kwInsertInto)) = kwInsertInto
               /\ ends_with(statements[1],
                     sp \o column_list(rows[1]) \o kwValues \o value_tuple(rows[1]))
          ELSE statements[k] = value_tuple(rows[k])

(* a batch whose rows hold an unset auto-increment key, a quoted value too *)
C10_Witness ==
    /\ Len(rows) = 2
    /\ rows[1].values[1] = txNull
    /\ rows[2].values = <<txNull, vOBrien>>
    /\ Len(statements) = 2

---------------------------------------------------------------------------
(* Reading a backend *)

backend_failed(backend) ==
    \/ ~backend.query_iter_ok
    \/ \E i \in 1..Len(backend.query_set) : ~backend.query_set[i].ok

(* C11: when the backend refuses the statement, or fails while yielding a  *)
(* row, build() returns an Err to its caller and no result sequence        *)
C11_BackendFailureIsErr ==
    (conn # None /\ backend_failed(unwrap(conn)))
        => (outcome = "Err" /\ results = <<>>)

(* C13: a successful build() returns one instance per backend row, in the  *)
(* backend's order, and the instance of a row has received, in column      *)
(* order, one (name, text) pair per column of that row, the text being     *)
(* that column's value ("NULL" for SQL NULL)                               *)
C13_OneInstancePerRow ==
    outcome = "Ok" =>
        \A query_set \in { unwrap(conn).query_set } :
            /\ Len(results) = Len(query_set)
            /\ \A i \in 1..Len(query_set) :
                /\ Len(results[i]) = Len(query_set[i].row)
                /\ \A j \in 1..Len(query_set[i].row) :
                    results[i][j] =
                        [name |-> query_set[i].row[j].name,
                         text |-> column_value_str(query_set[i].row[j].value)]

(* C12: into() returns Ok only when the backend ran the generated        *)
(* statement successfully, and Err when the backend failed               *)
C12_IntoOkOnlyWhenExecuted ==
    into_args # None =>
        /\ result = "Ok" => unwrap(into_args).backend = "ok"
        /\ unwrap(into_args).backend = "failed" => result # "Ok"

(* a name without its double quotes and backslashes *)
without_quoting(name) ==
    SelectSeq(name, LAMBDA ch : ch # "\"" /\ ch # "\\")

(* the table name of an INSERT statement: what stands between INSERT INTO *)
(* and the opening parenthesis of the column list                         *)
interpolated_name(statement) ==
    SubSeq(statement, Len(kwInsertInto) + 1,
           (CHOOSE i \in occurrences(statement, <<" ", "(">>) :
                \A j \in occurrences(statement, <<" ", "(">>) : i <= j) - 1)

(* C20: the table name interpolated into a generated INSERT statement, of *)
(* the row-batch form and of the INSERT ... SELECT form, is the row       *)
(* type's table name without its double quotes and backslashes, every     *)
(* other character kept in order                                          *)
C20_TableNameSanitised ==
    /\ rows # <<>> =>
        \A name \in { interpolated_name(unwrap(sent)) } :
            /\ ~contains(name, dquote) /\ ~contains(name, backslash)
            /\ name = without_quoting(get_name(rows[1]))
    /\ into_args # None =>
        \A name \in { interpolated_name(statements[1]) } :
            /\ ~contains(name, dquote) /\ ~contains(name, backslash)
            /\ name = without_quoting(unwrap(into_args).name)

(* an INSERT ... SELECT into a row type whose table name holds a double *)
(* quote and a backslash                                                *)
C20_Witness ==
    /\ into_args # None
    /\ unwrap(into_args).name = tQuoted
    /\ contains(tQuoted, dquote) /\ contains(tQuoted, backslash)
    /\ interpolated_name(statements[1]) = tUsers

---------------------------------------------------------------------------
(* Reading the joins of a statement *)

(* the i-th smallest position of a set of positions *)
nth(positions, i) ==
    CHOOSE x \in positions : Cardinality({ y \in positions : y < x }) = i - 1

join_list(b) == IF is_some(b.joins) THEN unwrap(b.joins) ELSE <<>>

(* the keyword the claim gives to a kind of join *)
kind_keyword(join_type) ==
    CASE join_type = "Inner" -> <<"I", "N", "N", "E", "R", " ", "J", "O", "I", "N">>
      [] join_type = "Left" -> <<"L", "E", "F", "T", " ", "J", "O", "I", "N">>
      [] join_type = "Right" -> <<"R", "I", "G", "H", "T", " ", "J", "O", "I", "N">>
      [] join_type = "Full" ->
            <<"F", "U", "L", "L", " ", "O", "U", "T", "E", "R", " ", "J", "O", "I", "N">>

(* C15: the base statement holds one JOIN per registered join and none    *)
(* without joins; the i-th JOIN closes the keyword of the i-th join's     *)
(* kind and is followed by that join's table and ON; the fragments stand  *)
(* after FROM <table> and before WHERE, in insertion order, a fragment    *)
(* after the first being set off from the one before by a single space    *)
C15_JoinFragments ==
    \A base \in { base_part(sql) } :
    \A joins \in { join_list(q) } :
    \A at \in { occurrences(base, kwJoinWord) } :
        /\ Cardinality(at) = Len(joins)
        /\ \A i \in 1..Len(joins) :
            \A kw \in { kind_keyword(joins[i].join_type) } :
            \A e \in { nth(at, i) + Len(kwJoinWord) - 1 } :
                /\ e - Len(kw) >= 1
                /\ SubSeq(base, e - Len(kw) + 1, e) = kw
                /\ base[e - Len(kw)] = " "
                /\ i > 1 => base[e - Len(kw) - 1] # " "
                /\ SubSeq(base, e + 1, e + 1 + Len(joins[i].table) + Len(kwOn))
                        = sp \o joins[i].table \o kwOn
                /\ \A f \in occurrences(base, kwFromWord) : f < e - Len(kw)
                /\ \A w \in occurrences(base, kwWhere) : e < w

(* two joins of different kinds in front of a WHERE *)
C15_Witness ==
    /\ Len(join_list(q)) = 2
    /\ join_list(q)[1].join_type = "Full"
    /\ join_list(q)[2].join_type = "Left"
    /\ is_some(q.where_condition)
    /\ last = "where_clause"

(* C16: the text after ON of every join is the rendering of its condition *)
(* without the leading WHERE keyword, nothing else of it altered          *)
C16_OnTextKeepsCondition ==
    \A base \in { base_part(sql) } :
    \A joins \in { join_list(q) } :
    \A at \in { occurrences(base, kwJoinWord) } :
        \A i \in 1..Len(joins) :
            \A on \in { joins[i].table \o kwOn
                        \o SubSeq(kwWhere \o sp \o condition_build(joins[i].on_condition),
                                  Len(kwWhere) + 1,
                                  Len(kwWhere \o sp \o condition_build(joins[i].on_condition))) } :
            \A e \in { nth(at, i) + Len(kwJoinWord) } :
                SubSeq(base, e + 1, e + Len(on)) = on

---------------------------------------------------------------------------
(* Reading a step of the fluent chain *)

(* the call changed no field of the builder but f *)
only_changes(f) == \A g \in DOMAIN q \ {f} : q'[g] = q[g]

(* the call put exactly one element at the end of a list *)
appended(before, after) ==
    /\ is_some(after)
    /\ \A old \in { IF is_some(before) THEN unwrap(before) ELSE <<>> } :
        /\ Len(unwrap(after)) = Len(old) + 1
        /\ SubSeq(unwrap(after), 1, Len(old)) = old

C18_SettersTouchOwnField ==
    [][ /\ last' = "select" =>
            (only_changes("columns") /\ q'.columns \in ColumnLists)
        /\ last' = "from" =>
            (only_changes("table") /\ q'.table = Some(tUsers))
        /\ last' = "where_clause" =>
            (only_changes("where_condition")
                /\ q'.where_condition \in { Some(c) : c \in Conditions })
        /\ last' = "group_by" =>
            (only_changes("group_by")
                /\ q'.group_by \in { Some(c) : c \in GroupByLists })
        /\ last' = "order_by" =>
            (only_changes("order_by")
                /\ q'.order_by \in { Some(o) : o \in OrderBys })
        /\ last' = "limit" =>
            (only_changes("limit") /\ q'.limit \in { Some(n) : n \in Limits })
        /\ last' = "offset" =>
            (only_changes("offset") /\ q'.offset \in { Some(n) : n \in Offsets })
        /\ last' = "having" =>
            (only_changes("having_condition")
                /\ q'.having_condition \in { Some(c) : c \in HavingConditions })
        /\ last' = "distinct" => (only_changes("distinct") /\ q'.distinct)
        /\ q.distinct => q'.distinct
        /\ last' = "except" =>
            (only_changes("except_clauses")
                /\ appended(q.except_clauses, q'.except_clauses))
        /\ last' = "union" =>
            (only_changes("union_clauses")
                /\ appended(q.union_clauses, q'.union_clauses))
        /\ last' = "join" =>
            (only_changes("joins") /\ appended(q.joins, q'.joins))
      ]_vars

(* OFFSET was set on a distinct builder that had its LIMIT *)
C18_Witness ==
    /\ last = "offset"
    /\ q.distinct
    /\ is_some(q.limit)
    /\ is_some(q.offset)

---------------------------------------------------------------------------
(* Reading the literals of a value tuple *)

(* the values of a row that reach its tuple, in order *)
kept_values(row) ==
    [j \in 1..Len(kept_pairs(row)) |-> kept_pairs(row)[j][2]]

(* where the j-th literal of a tuple starts if every literal before it is *)
(* its value, one more character per quote of the value, and two quotes   *)
(* around, followed by ", "                                               *)
RECURSIVE literal_start(_, _)
literal_start(vals, j) ==
    IF j = 1 THEN 2
    ELSE literal_start(vals, j - 1)
            + Len(vals[j - 1]) + count(vals[j - 1], quote) + 2 + Len(commaSp)

(* C19: in the value tuple of every row, the literal of a field text with *)
(* k single quotes has exactly 2k + 2 single quotes, starts and ends with *)
(* one, and what stands between them is the field text once every doubled *)
(* quote is read as one quote: no other character is altered              *)
C19_LiteralsQuoted ==
    \A i \in 1..Len(rows) :
    \A tuple \in { IF i = 1 THEN after_first(statements[1], kwValues)
                   ELSE statements[i] } :
    \A vals \in { kept_values(rows[i]) } :
        \A j \in 1..Len(vals) :
        \A k \in { count(vals[j], quote) } :
        \A lit \in { SubSeq(tuple, literal_start(vals, j),
                            literal_start(vals, j) + Len(vals[j]) + k + 1) } :
            /\ Len(lit) = Len(vals[j]) + k + 2
            /\ count(lit, quote) = 2 * k + 2
            /\ lit[1] = "'" /\ lit[Len(lit)] = "'"
            /\ replace(SubSeq(lit, 2, Len(lit) - 1), quote \o quote, quote) = vals[j]

(* a second row whose name holds a single quote *)
C19_Witness ==
    /\ Len(rows) = 2
    /\ rows[2].values = <<vSeven, vOBrien>>
    /\ count(vOBrien, quote) = 1
    /\ count(statements[2], quote) = 6

---------------------------------------------------------------------------
(* C21: one call of insert() hands the backend one statement, the whole   *)
(* batch joined by ", ", once; it returns Ok if the backend accepted it   *)
(* and Err(InvalidQuery) if the backend rejected it                       *)
C21_OneBackendCall ==
    (result # "none" /\ into_args = None) =>
        /\ Len(sent) = 1
        /\ Len(answered) = 1
        /\ Len(statements) = Len(rows)
        /\ sent[1] = join(statements, commaSp)
        /\ answered[1] => result = "Ok"
        /\ ~answered[1] => result = "Err(InvalidQuery)"

(* a batch of two rows that the backend rejected *)
C21_Witness ==
    /\ Len(rows) = 2
    /\ answered = <<FALSE>>
    /\ result = "Err(InvalidQuery)"
    /\ Len(sent) = 1

---------------------------------------------------------------------------
(* C22: from_str of an AutoIncrementPrimaryKey is Ok for every text, with *)
(* Some(v) when the text parses as T to v and None when it does not (the  *)
(* text NULL included); from_str of a PrimaryKey is Err exactly when the   *)
(* text does not parse as T, and holds the parsed value otherwise          *)
C22_AutoKeyParseNeverFails ==
    is_some(parsed) =>
        /\ unwrap(key).kind = "AutoIncrementPrimaryKey" =>
            /\ unwrap(parsed).ok
            /\ unwrap(parsed).key.kind = "AutoIncrementPrimaryKey"
            /\ unwrap(parsed).key.value = parse(unwrap(shown))
            /\ unwrap(shown) = txNull => unwrap(parsed).key.value = None
        /\ unwrap(key).kind = "PrimaryKey" =>
            /\ ~unwrap(parsed).ok <=> parse(unwrap(shown)) = None
            /\ unwrap(parsed).ok =>
                unwrap(parsed).key = PrimaryKey_new(unwrap(parse(unwrap(shown))))

(* the column text abc was parsed for an AutoIncrementPrimaryKey and gave *)
(* Ok with no value                                                       *)
C22_Witness ==
    /\ is_some(parsed)
    /\ life.last = "parse"
    /\ unwrap(key).kind = "AutoIncrementPrimaryKey"
    /\ unwrap(shown) = <<"a", "b", "c">>
    /\ unwrap(parsed).ok
    /\ unwrap(parsed).key.value = None

---------------------------------------------------------------------------
(* C25: an AutoIncrementPrimaryKey made by default() and not set since     *)
(* holds no value, get returns None on it and Display renders NULL; once   *)
(* set(v) has been called the key holds the most recently set v, get       *)
(* returns Some(v), and no later operation on the key leaves it empty      *)
C25_SetGetDefault ==
    (is_some(key) /\ unwrap(key).kind = "AutoIncrementPrimaryKey") =>
        /\ (life.made = "default" /\ life.set = None) =>
            /\ unwrap(key).value = None
            /\ is_some(got) => unwrap(got) = None
            /\ life.last = "to_string" => shown = Some(txNull)
        /\ is_some(life.set) =>
            /\ is_some(unwrap(key).value)
            /\ unwrap(key).value = life.set
            /\ is_some(got) => unwrap(got) = life.set

(* a key made by default() that was set, last to 7, and then read by get *)
C25_Witness ==
    /\ life = [made |-> "default", set |-> Some(7), last |-> "get"]
    /\ got = Some(Some(7))
    /\ unwrap(key).value = Some(7)

---------------------------------------------------------------------------
(* Reading the tuples of a batch against the column list of its first row *)

(* the value text a row holds for a column name *)
value_of(row, name) ==
    row.values[CHOOSE i \in 1..Len(row.fields) : row.fields[i] = name]

(* the tuple a row must emit to fit a list of column names: its values for *)
(* those columns, in the order of the list                                 *)
tuple_for(row, names) ==
    <<"(">> \o join([i \in 1..Len(names) |-> literal(value_of(row, names[i]))],
                    commaSp) \o <<")">>

(* C24: in a batch of rows of one row type, the tuple emitted for each of  *)
(* the rows 2..N has as many values as the column list emitted for the     *)
(* first row has columns, and its i-th value is the row's value for the    *)
(* i-th column of that list                                                *)
C24_TuplesFitFirstColumnList ==
    \A k \in 2..Len(rows) :
        \A names \in {[i \in 1..Len(kept_pairs(rows[1])) |-> kept_pairs(rows[1])[i][1]]} :
            /\ Len(kept_pairs(rows[k])) = Len(names)
            /\ statements[k] = tuple_for(rows[k], names)

---------------------------------------------------------------------------
(* Reading the fields of a converted TIME or DATE text *)

(* t is the decimal numeral of n, zero-padded on the left to at least w   *)
(* characters and no further                                              *)
zero_padded(t, n, w) ==
    /\ t # <<>>
    /\ \A i \in 1..Len(t) : \E d \in 0..9 : digit(d) = t[i]
    /\ parse_digits(t, 0) = n
    /\ Len(t) >= w
    /\ Len(t) > w => t[1] # "0"

(* the pieces of t that the characters at the positions cuts separate *)
pieces(t, cuts) ==
    [i \in 1..(Cardinality(cuts) + 1) |->
        SubSeq(t, IF i = 1 THEN 1 ELSE nth(cuts, i - 1) + 1,
                  IF i = Cardinality(cuts) + 1 THEN Len(t) ELSE nth(cuts, i) - 1)]

(* the positions of t that hold one of the characters chars *)
positions(t, chars) == { i \in 1..Len(t) : t[i] \in chars }

(* C23: a TIME value becomes [-]HH:MM:SS.ffffff with the hour field       *)
(* days*24 + hours, the sign present iff neg, hours, minutes and seconds  *)
(* zero-padded to at least 2 digits and microseconds to 6; a DATE value   *)
(* becomes YYYY-MM-DD HH:MM:SS.ffffff with year padded to 4, microseconds *)
(* to 6 and the other fields to 2                                         *)
C23_TimeAndDateText ==
    is_some(cell) =>
        \A v \in {unwrap(cell).value} : \A t \in {unwrap(cell).text} :
            /\ v.tag = "Time" =>
                /\ v.neg <=> (t[1] = "-")
                /\ \A body \in {IF t[1] = "-" THEN Tail(t) ELSE t} :
                   \A seps \in {positions(body, {":", ".", "-", " "})} :
                    /\ [i \in 1..Cardinality(seps) |-> body[nth(seps, i)]]
                            = <<":", ":", ".">>
                    /\ zero_padded(pieces(body, seps)[1], v.days * 24 + v.hours, 2)
                    /\ zero_padded(pieces(body, seps)[2], v.minutes, 2)
                    /\ zero_padded(pieces(body, seps)[3], v.seconds, 2)
                    /\ zero_padded(pieces(body, seps)[4], v.micros, 6)
            /\ v.tag = "Date" =>
                \A seps \in {positions(t, {":", ".", "-", " "})} :
                    /\ [i \in 1..Cardinality(seps) |-> t[nth(seps, i)]]
                            = <<"-", "-", " ", ":", ":", ".">>
                    /\ zero_padded(pieces(t, seps)[1], v.year, 4)
                    /\ zero_padded(pieces(t, seps)[2], v.month, 2)
                    /\ zero_padded(pieces(t, seps)[3], v.day, 2)
                    /\ zero_padded(pieces(t, seps)[4], v.hour, 2)
                    /\ zero_padded(pieces(t, seps)[5], v.min, 2)
                    /\ zero_padded(pieces(t, seps)[6], v.sec, 2)
                    /\ zero_padded(pieces(t, seps)[7], v.micro, 6)

(* a negative TIME of one day and nine hours became -33:00:04.000025 *)
C23_Witness ==
    /\ is_some(cell)
    /\ unwrap(cell).value = [tag |-> "Time", neg |-> TRUE, days |-> 1, hours |-> 9,
                             minutes |-> 0, seconds |-> 4, micros |-> 25]
    /\ unwrap(cell).text = <<"-", "3", "3", ":", "0", "0", ":", "0", "4", ".",
                             "0", "0", "0", "0", "2", "5">>

=============================================================================
